---- MODULE Spec2Model ----
(***************************************************************************)
(* Products page of mobile-products-vue3: the filter state (selected       *)
(* category, selected sort), its two-way synchronisation with the route    *)
(* query, the category list it is validated against, and the sort utility  *)
(* that orders the visible list.                                           *)
(*                                                                         *)
(* The page runs on one event loop.  A handler (a DOM event, a completed   *)
(* request, a popstate) runs to its end; what it leaves behind are jobs of *)
(* the reactivity scheduler and the continuation of router.replace, which  *)
(* are microtasks: they all run before the next external event is taken.   *)
(* The three watchers are:                                                 *)
(*   "R"  watch(() => route.query, ..., {immediate: true})                  *)
(*   "E"  watchEffect(...), re-run when something it read last time changed *)
(*   "W"  watch([selectedCategory, selectedSort], ...)                      *)
(***************************************************************************)
EXTENDS Integers, Sequences, FiniteSets, TLC

VARIABLES
    query,             \* route.query: [category, sort, ref], each a query value
    selectedCategory,  \* ref<string | null>
    selectedSort,      \* ref<SortKey>
    syncing,           \* ref(false)
    catStatus,         \* categoriesQuery status: "pending" | "success" | "error"
    catData,           \* categoriesQuery.data (<<>> while undefined)
    jobs,              \* scheduler queue of watcher jobs, in flush order
    effectDeps,        \* what the watchEffect read in its last run
    watchOld,          \* old value kept by the state watcher
    nav,               \* the router.replace writeStateToRoute awaits
    productsData,      \* productsQuery.data
    pq,                \* query cache: products query key -> its query
    observed,          \* the key the productsQuery observer is on
    lastDefined,       \* the last key the observer saw with data (for placeholderData)
    catAttempts,       \* calls of getCategories in the running categories fetch
    entries,           \* history entries the page has added
    arrays,            \* array store of the sort utility: reference -> contents
    sortArg,           \* sortProducts call: [items, sort], items a reference
    sortRet,           \* reference returned by the last sortProducts call
    given,             \* history: the query the page was last handed from outside
    byLoad,            \* history: that query came with a page load, nothing outside changed it since
    listed,            \* history: the category list was loaded when the route last changed from outside
    chosen,            \* history: filter state right after the last UI selection
    hops,              \* history: microtasks run since the last external event (0 once settled)
    lastRes            \* history: the HTTP response delivered last

vars == <<query, selectedCategory, selectedSort, syncing, catStatus, catData,
          jobs, effectDeps, watchOld, nav, productsData, pq, observed,
          lastDefined, catAttempts, entries, arrays, sortArg, sortRet, given,
          byLoad, listed, chosen, hops, lastRes>>

syncVars == <<query, selectedCategory, selectedSort, syncing, catStatus,
              catData, jobs, effectDeps, watchOld, nav, entries, given, byLoad,
              listed, chosen, hops>>

\* The products query as the cache holds it, and the categories fetch.
queryVars == <<pq, observed, lastDefined, catAttempts, lastRes>>

sortVars == <<arrays, sortArg, sortRet>>

-----------------------------------------------------------------------------
(* Bounds *)

MaxCategories == 2
MaxProducts == 11
MaxLen == 4
MaxHops == 12

-----------------------------------------------------------------------------
(* Values *)

NULL == "<null>"
\* productsQuery.data while no products have arrived.
UNDEFINED == [defined |-> FALSE, items |-> <<>>]
None == <<>>

DEFAULT_CATEGORY == NULL

DEFAULT_SORT == "title-asc"

SORT_OPTIONS == <<"price-asc", "price-desc", "title-asc", "title-desc">>

SortKeys == {SORT_OPTIONS[i] : i \in 1..Len(SORT_OPTIONS)}

ALL_PRODUCTS == "all products"

CategoryNames == <<"beauty", "laptops", "tablets", "vehicle">>

\* The lists the categories request can answer with: the first n names.
CategoryLists == {SubSeq(CategoryNames, 1, n) : n \in 0..MaxCategories}

Range(s) == {s[i] : i \in 1..Len(s)}

\* A query value is the list of values its key has in the URL: <<>> when the
\* key is absent, <<v>> for key=v, <<v, w>> for a repeated key.
Absent == <<>>

CategoryValues ==
    {Absent, <<"">>, <<ALL_PRODUCTS>>, <<"beauty">>, <<"laptops">>,
     <<"nosuch">>, <<"beauty", "nosuch">>}

SortValues ==
    {Absent, <<"">>, <<"price-asc">>, <<"price-desc">>, <<"title-asc">>,
     <<"title-desc">>, <<"newest">>, <<"price-desc", "newest">>}

RefValues == {Absent, <<"mail">>}

Queries == [category : CategoryValues, sort : SortValues, ref : RefValues]

\* No navigation of writeStateToRoute is under way.  `open` counts the
\* router.replace calls not yet resumed from, `replace` is false for a push.
NoNav ==
    [phase |-> "none", target |-> [category |-> Absent, sort |-> Absent, ref |-> Absent],
     open |-> 0, replace |-> TRUE]

-----------------------------------------------------------------------------
(* Helpers of the page controller *)

asSingleString(v) == IF Len(v) = 0 THEN NULL ELSE v[1]

isSortKey(v) == \E i \in 1..Len(SORT_OPTIONS) : SORT_OPTIONS[i] = v

\* categories = categoriesQuery.data ?? []
categories(data) == data

categoryOptions(data) == <<ALL_PRODUCTS>> \o categories(data)

\* Variant: every parameter passes as a category.
isValidCategoryParam_any(param, data) == TRUE

isValidCategoryParam(param, data) ==
    IF param = NULL \/ param = "" THEN TRUE
    ELSE param \in Range(categories(data))

\* Variant: the category is never written into the query.
StateQuery_noCategory(q, cat, sort) ==
    [q EXCEPT !.category = Absent,
              !.sort = IF sort = DEFAULT_SORT THEN Absent ELSE <<sort>>]

\* Variant: the query is built from the filter state alone.
StateQuery_fresh(q, cat, sort) ==
    [category |-> IF cat = DEFAULT_CATEGORY THEN Absent ELSE <<cat>>,
     sort |-> IF sort = DEFAULT_SORT THEN Absent ELSE <<sort>>,
     ref |-> Absent]

\* Variant: the query is passed on as it was read.
StateQuery_unchanged(q, cat, sort) == q

\* The query writeStateToRoute passes to router.replace.
StateQuery(q, cat, sort) ==
    [q EXCEPT !.category = IF cat = DEFAULT_CATEGORY THEN Absent ELSE <<cat>>,
              !.sort = IF sort = DEFAULT_SORT THEN Absent ELSE <<sort>>]

\* Variant: the sort of the route is not read.
NextSort_default(q) == DEFAULT_SORT

\* readRouteToStateAndClean, the values it computes from the route.
NextSort(q) ==
    IF isSortKey(asSingleString(q.sort)) THEN asSingleString(q.sort) ELSE DEFAULT_SORT

NextCategory(q, data) ==
    LET rawCategory == asSingleString(q.category) IN
    IF rawCategory = NULL \/ rawCategory = "" \/ rawCategory = ALL_PRODUCTS
        THEN DEFAULT_CATEGORY
    ELSE IF Len(categories(data)) > 0
        THEN IF isValidCategoryParam(rawCategory, data) THEN rawCategory
             ELSE DEFAULT_CATEGORY
    ELSE DEFAULT_CATEGORY

needsCategoryClean(q, data) ==
    LET rawCategory == asSingleString(q.category) IN
    /\ Len(categories(data)) > 0
    /\ rawCategory # NULL
    /\ rawCategory # ""
    /\ rawCategory # ALL_PRODUCTS
    /\ ~isValidCategoryParam(rawCategory, data)

\* Variant: an unknown sort parameter is never cleaned.
needsSortClean_never(q) == FALSE

needsSortClean(q) ==
    LET rawSort == asSingleString(q.sort) IN
    rawSort # NULL /\ rawSort # "" /\ ~isSortKey(rawSort)

-----------------------------------------------------------------------------
(* The reactive machine.  A synchronous run of code is a function on the    *)
(* record of the reactive state; `who` is the watcher whose code is         *)
(* running ("setup" while the component is being set up, "ui" in a DOM     *)
(* handler).                                                               *)

Machine ==
    [query |-> query, cat |-> selectedCategory, sort |-> selectedSort,
     syncing |-> syncing, data |-> catData, status |-> catStatus,
     jobs |-> jobs, deps |-> effectDeps, old |-> watchOld, nav |-> nav]

\* queueJob: a job already waiting is not queued twice.
Enqueue(q, job) == IF job \in Range(q) THEN q ELSE Append(q, job)

\* A change of a ref notifies its subscribers in the order they subscribed.
\* The state watcher subscribes to both refs when it is created; the
\* watchEffect subscribes to whatever its last run read, and a running effect
\* is not notified by its own writes.  During setup nothing is subscribed.
Notify(m, who, dep, first) ==
    LET q1 == IF first # "" /\ who # "setup" THEN Enqueue(m.jobs, first) ELSE m.jobs
        q2 == IF dep \in m.deps /\ who # "E" THEN Enqueue(q1, "E") ELSE q1
    IN [m EXCEPT !.jobs = q2]

SetSort(m, who, v) ==
    IF v = m.sort THEN m
    ELSE Notify([m EXCEPT !.sort = v], who, "selectedSort", "W")

SetCategory(m, who, v) ==
    IF v = m.cat THEN m
    ELSE Notify([m EXCEPT !.cat = v], who, "selectedCategory", "W")

SetSyncing(m, who, v) ==
    IF v = m.syncing THEN m
    ELSE Notify([m EXCEPT !.syncing = v], who, "syncing", "")

\* router.replace({query: q}): the navigation runs in later microtasks; a
\* navigation to the location the router is already at ends as a duplicate
\* and leaves the route as it is.
routerReplace(m, q) ==
    [m EXCEPT !.nav = [phase |-> IF q = m.query THEN "duplicate" ELSE "pending",
                       target |-> q, open |-> m.nav.open + 1, replace |-> TRUE]]

\* Variant: no finally; a rejected navigation skips the reset of syncing.
resumeWrite_noFinally(m) ==
    IF m.nav.phase = "rejected" THEN [m EXCEPT !.nav = NoNav]
    ELSE SetSyncing([m EXCEPT !.nav = NoNav], "router", FALSE)

\* writeStateToRoute from its await on: finally { syncing.value = false },
\* whether router.replace resolved or rejected.
resumeWrite(m) == SetSyncing([m EXCEPT !.nav = NoNav], "router", FALSE)

\* writeStateToRoute up to its await.
writeStateToRoute(m, who) ==
    LET q == StateQuery(m.query, m.cat, m.sort) IN
    routerReplace(SetSyncing(m, who, TRUE), q)

\* readRouteToStateAndClean up to its await.
readRouteToStateAndClean(m, who) ==
    LET nextSort == NextSort(m.query)
        nextCategory == NextCategory(m.query, m.data)
        changed == nextSort # m.sort \/ nextCategory # m.cat
        m1 == IF changed THEN SetCategory(SetSort(m, who, nextSort), who, nextCategory)
              ELSE m
    IN IF needsCategoryClean(m.query, m.data) \/ needsSortClean(m.query)
       THEN writeStateToRoute(m1, who)
       ELSE m1

\* What a run of readRouteToStateAndClean reads: the route, the categories,
\* selectedSort, and selectedCategory when the comparison reaches it or
\* writeStateToRoute is entered.
ReadDeps(m) ==
    {"isSuccess", "syncing", "route", "categories", "selectedSort"}
    \cup (IF NextSort(m.query) = m.sort
             \/ needsCategoryClean(m.query, m.data) \/ needsSortClean(m.query)
          THEN {"selectedCategory"} ELSE {})

\* watch(() => route.query, ...) callback.
routeWatcher(m, who) ==
    IF m.syncing THEN m ELSE readRouteToStateAndClean(m, who)

\* Variant: the watchEffect without its syncing guard.
categoryEffect_unguarded(m) ==
    IF m.status # "success" THEN [m EXCEPT !.deps = {"isSuccess"}]
    ELSE [readRouteToStateAndClean(m, "E") EXCEPT !.deps = ReadDeps(m)]

\* watchEffect body; its dependencies are those of this run.
categoryEffect(m) ==
    IF m.status # "success" THEN [m EXCEPT !.deps = {"isSuccess"}]
    ELSE IF m.syncing THEN [m EXCEPT !.deps = {"isSuccess", "syncing"}]
    ELSE [readRouteToStateAndClean(m, "E") EXCEPT !.deps = ReadDeps(m)]

\* Variant: the state watcher with its guard inverted.
stateWatcher_invertedGuard(m) ==
    IF <<m.cat, m.sort>> = m.old THEN m
    ELSE LET m1 == [m EXCEPT !.old = <<m.cat, m.sort>>] IN
         IF m1.syncing THEN writeStateToRoute(m1, "W") ELSE m1

\* watch([selectedCategory, selectedSort], ...): the callback runs only if
\* a value differs from the one the watcher saw last.
stateWatcher(m) ==
    IF <<m.cat, m.sort>> = m.old THEN m
    ELSE LET m1 == [m EXCEPT !.old = <<m.cat, m.sort>>] IN
         IF m1.syncing THEN m1 ELSE writeStateToRoute(m1, "W")

onCategoryChange(m, v) ==
    IF v = ALL_PRODUCTS THEN SetCategory(m, "ui", DEFAULT_CATEGORY)
    ELSE SetCategory(m, "ui", v)

onSortChange(m, v) == SetSort(m, "ui", v)

\* <script setup> with the route at q: the refs, the immediate run of the
\* route watcher, the first run of the watchEffect, the state watcher.
Setup(q) ==
    LET m0 == [query |-> q, cat |-> DEFAULT_CATEGORY, sort |-> DEFAULT_SORT,
               syncing |-> FALSE, data |-> <<>>, status |-> "pending",
               jobs |-> <<>>, deps |-> {}, old |-> <<>>, nav |-> NoNav]
        m1 == routeWatcher(m0, "setup")
        m2 == categoryEffect(m1)
    IN [m2 EXCEPT !.old = <<m2.cat, m2.sort>>]

Install(m) ==
    /\ query' = m.query
    /\ selectedCategory' = m.cat
    /\ selectedSort' = m.sort
    /\ syncing' = m.syncing
    /\ catData' = m.data
    /\ catStatus' = m.status
    /\ jobs' = m.jobs
    /\ effectDeps' = m.deps
    /\ watchOld' = m.old
    /\ nav' = m.nav

\* The reactive state is m (for the initial condition).
Loaded(m) ==
    /\ query = m.query
    /\ selectedCategory = m.cat
    /\ selectedSort = m.sort
    /\ syncing = m.syncing
    /\ catData = m.data
    /\ catStatus = m.status
    /\ jobs = m.jobs
    /\ effectDeps = m.deps
    /\ watchOld = m.old
    /\ nav = m.nav

\* No microtask is left: the next thing to run is an external event.
Idle == jobs = <<>> /\ nav.phase = "none"

-----------------------------------------------------------------------------
(* Products and the sort utility *)

TitleNames == <<"pear", "apple", "Pear", "apple">>

PriceList == <<10, 5, 10, 30, 5>>

Product(i) ==
    [id |-> i,
     title |-> TitleNames[((i - 1) % Len(TitleNames)) + 1],
     price |-> PriceList[((i - 1) % Len(PriceList)) + 1]]

\* Collation order of the titles in use: letters first, lower case before
\* upper case on a tie of letters.
TitleRank(t) ==
    CASE t = "apple" -> 1
      [] t = "pear" -> 2
      [] t = "Pear" -> 3

\* String.prototype.localeCompare
localeCompare(a, b) ==
    IF TitleRank(a) < TitleRank(b) THEN -1
    ELSE IF TitleRank(a) > TitleRank(b) THEN 1
    ELSE 0

\* Variant: the descending keys compare like the ascending ones.
Compare_ascendingOnly(sort, a, b) ==
    CASE sort = "price-asc" -> a.price - b.price
      [] sort = "price-desc" -> a.price - b.price
      [] sort = "title-asc" -> localeCompare(a.title, b.title)
      [] sort = "title-desc" -> localeCompare(a.title, b.title)

\* The comparator sortProducts hands to Array.prototype.sort for each key.
Compare(sort, a, b) ==
    CASE sort = "price-asc" -> a.price - b.price
      [] sort = "price-desc" -> b.price - a.price
      [] sort = "title-asc" -> localeCompare(a.title, b.title)
      [] sort = "title-desc" -> localeCompare(b.title, a.title)

\* Array.prototype.sort: a stable sort by the comparator (insertion of each
\* element behind every element that does not compare greater).
RECURSIVE InsertSorted(_, _, _)
InsertSorted(s, x, sort) ==
    IF Len(s) = 0 THEN <<x>>
    ELSE IF Compare(sort, s[Len(s)], x) <= 0 THEN Append(s, x)
    ELSE Append(InsertSorted(SubSeq(s, 1, Len(s) - 1), x, sort), s[Len(s)])

RECURSIVE ArraySort(_, _)
ArraySort(arr, sort) ==
    IF Len(arr) = 0 THEN <<>>
    ELSE InsertSorted(ArraySort(SubSeq(arr, 1, Len(arr) - 1), sort), arr[Len(arr)], sort)

\* Variant: the input array itself is sorted and returned.
sortProducts_inPlace(store, items, sort) ==
    IF sort \in SortKeys
    THEN [store |-> [store EXCEPT ![items] = ArraySort(store[items], sort)],
          ret |-> items]
    ELSE [store |-> store, ret |-> 0]

\* sortProducts(items, sort) on the array store: `items` is a reference, the
\* copy is a new array, sorted in place and returned (0: no array, when the
\* switch matches no case).
sortProducts(store, items, sort) ==
    LET copy == Len(store) + 1
        store1 == Append(store, store[items])
    IN IF sort \in SortKeys
       THEN [store |-> [store1 EXCEPT ![copy] = ArraySort(store1[copy], sort)],
             ret |-> copy]
       ELSE [store |-> store1, ret |-> 0]

VISIBLE_LIMIT == 10

Min(a, b) == IF a < b THEN a ELSE b

\* Variant: no slice.
Slice_all(arr, n) == arr

\* sorted.slice(0, 10)
Slice(arr, n) == SubSeq(arr, 1, Min(n, Len(arr)))

\* Variant: the slice is taken before the sort.
visibleProducts_sliceFirst ==
    LET items == IF productsData.defined THEN productsData.items ELSE <<>>
        r == sortProducts(<<Slice(items, VISIBLE_LIMIT)>>, 1, selectedSort)
    IN r.store[r.ret]

\* visibleProducts = sortProducts(productsQuery.data ?? [], selectedSort).slice(0, 10)
visibleProducts ==
    LET items == IF productsData.defined THEN productsData.items ELSE <<>>
        r == sortProducts(<<items>>, 1, selectedSort)
    IN Slice(r.store[r.ret], VISIBLE_LIMIT)

\* What the products request can answer with.
ProductLists ==
    {<<>>, [i \in 1..3 |-> Product(i)], [i \in 1..MaxProducts |-> Product(MaxProducts + 1 - i)]}

\* Inputs of the sort utility: the lists of distinct products up to MaxLen.
SortInputs ==
    LET Idx == UNION {[1..n -> 1..MaxLen] : n \in 0..MaxLen}
        Inj == {f \in Idx : \A i, j \in 1..Len(f) : i # j => f[i] # f[j]}
    IN {[i \in 1..Len(f) |-> Product(f[i])] : f \in Inj}

-----------------------------------------------------------------------------
(* HTTP, the two requests and the query cache *)

limit == 100

RETRY == 1

\* The statuses a response of the API can carry.
Statuses == {200, 404, 500}

NoData == [products |-> <<>>]

\* Variant: the body is parsed whatever the status.
fetchJson_noCheck(res) == [ok |-> TRUE, data |-> res.body]

\* fetchJson: throws unless res.ok (status 200..299), else the parsed body.
fetchJson(res) ==
    IF ~(res.status >= 200 /\ res.status <= 299)
    THEN [ok |-> FALSE, data |-> NoData]
    ELSE [ok |-> TRUE, data |-> res.body]

\* getCategories, given the response to its request.
getCategories(res) == fetchJson(res)

\* The names in use consist of unreserved characters, which
\* encodeURIComponent leaves as they are.
encodeURIComponent(c) == c

NoUrl == [path |-> <<>>, limit |-> 0]

\* getProducts: the URL it requests ...
getProductsUrl(category) ==
    IF category = NULL \/ category = ""
    THEN [path |-> <<"products">>, limit |-> limit]
    ELSE [path |-> <<"products", "category", encodeURIComponent(category)>>,
          limit |-> limit]

\* ... and what it returns, given the response: data.products.
getProducts(res) ==
    LET r == fetchJson(res) IN [ok |-> r.ok, data |-> r.data.products]

\* The products the server holds for a category (NULL: all of them).
Catalogue(c) ==
    CASE c = NULL -> [i \in 1..MaxProducts |-> Product(MaxProducts + 1 - i)]
      [] c = "beauty" -> [i \in 1..3 |-> Product(i)]
      [] c = "laptops" -> <<>>
      [] OTHER -> <<Product(4)>>

\* The responses the server can give to a products request.
ProductResponses(url) ==
    LET c == IF Len(url.path) = 1 THEN NULL ELSE url.path[3] IN
    [status : Statuses,
     body : {[products |-> SubSeq(Catalogue(c), 1, Min(url.limit, Len(Catalogue(c))))]}]

CategoryResponses == [status : Statuses, body : CategoryLists]

\* Variant: one key for every category.
queryKey_static(cat, sort) == <<"products">>

\* Variant: the sort is part of the key.
queryKey_withSort(cat, sort) == <<"products", cat, sort>>

\* queryKey: ["products", selectedCategory]
queryKey(cat, sort) == <<"products", cat>>

QueryKeys ==
    {queryKey(c, s) : c \in {NULL} \cup Range(SubSeq(CategoryNames, 1, MaxCategories)),
                      s \in SortKeys}

NoKey == <<>>

\* A key the cache holds no query for.
NoQuery ==
    [status |-> "none", fetch |-> "idle", data |-> UNDEFINED, attempts |-> 0,
     url |-> NoUrl]

NoCache == [k \in QueryKeys |-> NoQuery]

NoResponse == [of |-> "none", key |-> NoKey, status |-> 0, ok |-> FALSE]

\* A fetch starts: queryFn is called, which reads selectedCategory.
StartFetch(e, cat) ==
    [e EXCEPT !.status = IF e.data.defined THEN e.status ELSE "pending",
              !.fetch = "fetching",
              !.attempts = 1,
              !.url = getProductsUrl(cat)]

\* A query without data is stale; data is fresh for staleTime (60 s), and the
\* page is followed for less than that after data arrived.
isStale(e) == ~e.data.defined

\* The observer is set on key k: it fetches a stale query unless that query
\* is fetching already (a query between two attempts goes on retrying).
ObserveQuery(cache, k, cat) ==
    IF cache[k].fetch # "idle" THEN cache
    ELSE IF isStale(cache[k]) THEN [cache EXCEPT ![k] = StartFetch(cache[k], cat)]
    ELSE cache

\* productsQuery.data: the data of the observed query; while that query is
\* pending without data, placeholderData keeps what was shown, or takes the
\* data of the last query seen with data.
ObserverData(cache, k, shown, last) ==
    IF cache[k].data.defined THEN cache[k].data
    ELSE IF cache[k].status = "pending"
        THEN IF shown.defined THEN shown
             ELSE IF last = NoKey THEN UNDEFINED
             ELSE cache[last].data
    ELSE UNDEFINED

\* Variant: a failed request is retried whatever the count.
Settle_keepRetrying(e, r, watched) ==
    IF r.ok
    THEN [e EXCEPT !.status = "success", !.fetch = "idle", !.url = NoUrl,
                   !.attempts = 0, !.data = [defined |-> TRUE, items |-> r.data]]
    ELSE [e EXCEPT !.fetch = "backoff", !.url = NoUrl]

\* An attempt of a query ends with r: data on success; on failure another
\* attempt while failureCount < retry and an observer is on the query, else
\* the error state (data, if any, stays).
Settle(e, r, watched) ==
    IF r.ok
    THEN [e EXCEPT !.status = "success", !.fetch = "idle", !.url = NoUrl,
                   !.attempts = 0, !.data = [defined |-> TRUE, items |-> r.data]]
    ELSE IF watched /\ e.attempts - 1 < RETRY
        THEN [e EXCEPT !.fetch = "backoff", !.url = NoUrl]
    ELSE [e EXCEPT !.status = "error", !.fetch = "idle", !.url = NoUrl]

isError == pq[observed].status = "error"

isFetching == pq[observed].fetch # "idle"

\* isLoading = isFetching && isPending; placeholder data makes the result a
\* success.
isLoading == isFetching /\ pq[observed].status = "pending" /\ ~productsData.defined

\* The branch of the template's v-if chain that renders.
View ==
    IF isError THEN "error"
    ELSE IF isLoading /\ ~(productsData.defined /\ Len(productsData.items) > 0)
        THEN "skeleton"
    ELSE IF Len(visibleProducts) = 0 THEN "empty"
    ELSE "grid"

-----------------------------------------------------------------------------
(* Page load *)

Init ==
    /\ \E q \in Queries :
        /\ Loaded(Setup(q))
        /\ given = q
    /\ byLoad = TRUE
    /\ listed = FALSE
    /\ chosen = None
    /\ hops = 0
    /\ productsData = UNDEFINED
    /\ pq = NoCache
    /\ observed = queryKey(selectedCategory, selectedSort)
    /\ lastDefined = NoKey
    /\ catAttempts = 1
    /\ entries = 0
    /\ lastRes = NoResponse
    /\ arrays = <<>>
    /\ sortArg = [items |-> 0, sort |-> DEFAULT_SORT]
    /\ sortRet = 0

-----------------------------------------------------------------------------
(* Microtasks: the scheduler flush and the navigation *)

\* The scheduler runs the route watcher's job.
FlushRouteWatcher ==
    /\ hops < MaxHops
    /\ jobs # <<>> /\ Head(jobs) = "R"
    /\ Install(routeWatcher([Machine EXCEPT !.jobs = Tail(jobs)], "R"))
    /\ hops' = IF jobs' = <<>> /\ nav'.phase = "none" THEN 0 ELSE hops + 1
    /\ UNCHANGED <<entries, sortVars, given, byLoad, listed, chosen>>

\* The scheduler runs the watchEffect.
FlushCategoryEffect ==
    /\ hops < MaxHops
    /\ jobs # <<>> /\ Head(jobs) = "E"
    /\ Install(categoryEffect([Machine EXCEPT !.jobs = Tail(jobs)]))
    /\ hops' = IF jobs' = <<>> /\ nav'.phase = "none" THEN 0 ELSE hops + 1
    /\ UNCHANGED <<entries, sortVars, given, byLoad, listed, chosen>>

\* The scheduler runs the state watcher's job.
FlushStateWatcher ==
    /\ hops < MaxHops
    /\ jobs # <<>> /\ Head(jobs) = "W"
    /\ Install(stateWatcher([Machine EXCEPT !.jobs = Tail(jobs)]))
    /\ hops' = IF jobs' = <<>> /\ nav'.phase = "none" THEN 0 ELSE hops + 1
    /\ UNCHANGED <<entries, sortVars, given, byLoad, listed, chosen>>

\* The router finishes the navigation: the route becomes the target (a
\* duplicate navigation leaves it), which notifies the route watcher and then
\* the watchEffect if it read the route.  The flush this schedules runs
\* before the awaiting writeStateToRoute resumes.
FinalizeNavigation ==
    /\ hops < MaxHops
    /\ jobs = <<>>
    /\ nav.phase \in {"pending", "duplicate"}
    /\ LET m == Machine
           m1 == IF nav.phase = "pending"
                 THEN Notify([m EXCEPT !.query = nav.target], "router", "route", "R")
                 ELSE m
       IN Install([m1 EXCEPT !.nav.phase = "finalized"])
    /\ hops' = IF jobs' = <<>> /\ nav'.phase = "none" THEN 0 ELSE hops + 1
    /\ entries' = IF nav.phase = "pending" /\ ~nav.replace THEN entries + 1 ELSE entries
    /\ UNCHANGED <<sortVars, given, byLoad, listed, chosen>>

\* writeStateToRoute resumes after its await: finally { syncing = false }.
ResumeWrite ==
    /\ hops < MaxHops
    /\ jobs = <<>>
    /\ nav.phase \in {"finalized", "aborted", "rejected"}
    /\ Install(resumeWrite(Machine))
    /\ hops' = IF jobs' = <<>> /\ nav'.phase = "none" THEN 0 ELSE hops + 1
    /\ UNCHANGED <<entries, sortVars, given, byLoad, listed, chosen>>

-----------------------------------------------------------------------------
(* External events, each taken when no microtask is left *)

\* The categories request succeeds with a list: isSuccess turns true.
CategoriesSucceed(list) ==
    /\ Idle
    /\ catStatus = "pending"
    /\ Install(Notify([Machine EXCEPT !.status = "success", !.data = list],
                      "query", "isSuccess", ""))
    /\ hops' = 0
    /\ UNCHANGED <<entries, sortVars, given, byLoad, listed, chosen>>

\* The categories request succeeds with a list.
CategoriesLoaded ==
    /\ \E list \in CategoryLists : CategoriesSucceed(list)
    /\ UNCHANGED <<productsData, queryVars>>

\* The categories request fails for good.
CategoriesFailed ==
    /\ Idle
    /\ catStatus = "pending"
    /\ catStatus' = "error"
    /\ UNCHANGED <<query, selectedCategory, selectedSort, syncing, catData, jobs,
                   effectDeps, watchOld, nav, productsData, queryVars, entries,
                   sortVars, given, byLoad, listed, chosen, hops>>

\* The user picks an option of the category select.
SelectCategory ==
    /\ Idle
    /\ \E v \in Range(categoryOptions(catData)) :
        LET m == onCategoryChange(Machine, v) IN
        /\ m # Machine
        /\ Install(m)
        /\ chosen' = <<m.cat, m.sort>>
    /\ hops' = 0
    /\ UNCHANGED <<entries, sortVars, given, byLoad, listed>>

\* The user picks an option of the sort select.
SelectSort ==
    /\ Idle
    /\ \E v \in SortKeys :
        LET m == onSortChange(Machine, v) IN
        /\ m # Machine
        /\ Install(m)
        /\ chosen' = <<m.cat, m.sort>>
    /\ hops' = 0
    /\ UNCHANGED <<entries, sortVars, given, byLoad, listed>>

\* Back/forward: the router moves the route to another query.
RouteChange ==
    /\ Idle
    /\ \E q \in Queries :
        /\ q # query
        /\ Install(Notify([Machine EXCEPT !.query = q], "router", "route", "R"))
        /\ given' = q
    /\ byLoad' = FALSE
    /\ listed' = (catStatus = "success")
    /\ chosen' = None
    /\ hops' = 0
    /\ UNCHANGED <<productsData, queryVars, entries, sortVars>>

\* The page is loaded again at the URL it shows.
Reload ==
    /\ Idle
    /\ Install(Setup(query))
    /\ given' = query
    /\ byLoad' = TRUE
    /\ listed' = FALSE
    /\ chosen' = None
    /\ productsData' = UNDEFINED
    /\ hops' = 0
    /\ UNCHANGED <<queryVars, entries, sortVars>>

\* The products request succeeds with a list.
ProductsLoaded ==
    /\ Idle
    /\ \E list \in ProductLists : productsData' = [defined |-> TRUE, items |-> list]
    /\ productsData' # productsData
    /\ UNCHANGED <<syncVars, queryVars, sortVars>>

-----------------------------------------------------------------------------
(* The page as Spec follows it: the filter state and the route in full, the  *)
(* products query only by the data it hands to the page (ProductsLoaded);    *)
(* its cache is followed by ProductsSpec below.                              *)

RunRouteWatcher == FlushRouteWatcher /\ UNCHANGED <<productsData, queryVars>>

RunCategoryEffect == FlushCategoryEffect /\ UNCHANGED <<productsData, queryVars>>

RunStateWatcher == FlushStateWatcher /\ UNCHANGED <<productsData, queryVars>>

NavFinalize == FinalizeNavigation /\ UNCHANGED <<productsData, queryVars>>

NavResume == ResumeWrite /\ UNCHANGED <<productsData, queryVars>>

UserCategory == SelectCategory /\ UNCHANGED <<productsData, queryVars>>

UserSort == SelectSort /\ UNCHANGED <<productsData, queryVars>>

Next ==
    \/ RunRouteWatcher
    \/ RunCategoryEffect
    \/ RunStateWatcher
    \/ NavFinalize
    \/ NavResume
    \/ CategoriesLoaded
    \/ CategoriesFailed
    \/ UserCategory
    \/ UserSort
    \/ RouteChange
    \/ Reload
    \/ ProductsLoaded

Spec == Init /\ [][Next]_vars

-----------------------------------------------------------------------------
(* The sort utility on its own: every input list with every key *)

SortInit ==
    /\ Loaded(Setup([category |-> Absent, sort |-> Absent, ref |-> Absent]))
    /\ given = query
    /\ byLoad = TRUE
    /\ listed = FALSE
    /\ chosen = None
    /\ hops = 0
    /\ productsData = UNDEFINED
    /\ pq = NoCache
    /\ observed = queryKey(selectedCategory, selectedSort)
    /\ lastDefined = NoKey
    /\ catAttempts = 1
    /\ entries = 0
    /\ lastRes = NoResponse
    /\ \E items \in SortInputs, sort \in SortKeys :
        /\ arrays = <<items>>
        /\ sortArg = [items |-> 1, sort |-> sort]
    /\ sortRet = 0

\* const sorted = sortProducts(items, sort)
CallSortProducts ==
    /\ sortRet = 0
    /\ LET r == sortProducts(arrays, sortArg.items, sortArg.sort) IN
        /\ arrays' = r.store
        /\ sortRet' = r.ret
    /\ UNCHANGED <<sortArg, syncVars, productsData, queryVars>>

SortNext == CallSortProducts

SortSpec == SortInit /\ [][SortNext]_vars

-----------------------------------------------------------------------------
(* The page with a router whose navigations can fail: besides being applied *)
(* or ending as a duplicate, a router.replace can be aborted (it resolves   *)
(* with a failure) or reject; the route stays as it was.  The page is       *)
(* loaded at any URL and the route changes only by what the page writes.    *)

FailNavigation ==
    /\ hops < MaxHops
    /\ jobs = <<>>
    /\ nav.phase = "pending"
    /\ \E outcome \in {"aborted", "rejected"} :
        Install([Machine EXCEPT !.nav.phase = outcome])
    /\ hops' = hops + 1
    /\ UNCHANGED <<entries, sortVars, given, byLoad, listed, chosen>>

NavFail == FailNavigation /\ UNCHANGED <<productsData, queryVars>>

FaultNext ==
    \/ RunRouteWatcher
    \/ RunCategoryEffect
    \/ RunStateWatcher
    \/ NavFinalize
    \/ NavFail
    \/ NavResume
    \/ CategoriesLoaded
    \/ CategoriesFailed
    \/ UserCategory
    \/ UserSort

FaultSpec == Init /\ [][FaultNext]_vars

-----------------------------------------------------------------------------
(* The page with its query cache: the products query per key, its attempts  *)
(* and retries, the responses by status.  The page is loaded at one of a    *)
(* few URLs and the route changes only by what the page writes.             *)

ProductsQueries ==
    [category : {Absent, <<"beauty">>}, sort : {Absent, <<"price-desc">>}, ref : {Absent}]

\* useQuery in setup: the observer subscribes and fetches at once.
ProductsInit ==
    /\ \E q \in ProductsQueries :
        /\ Loaded(Setup(q))
        /\ given = q
    /\ byLoad = TRUE
    /\ listed = FALSE
    /\ chosen = None
    /\ hops = 0
    /\ observed = queryKey(selectedCategory, selectedSort)
    /\ pq = ObserveQuery(NoCache, observed, selectedCategory)
    /\ productsData = UNDEFINED
    /\ lastDefined = NoKey
    /\ catAttempts = 1
    /\ entries = 0
    /\ lastRes = NoResponse
    /\ arrays = <<>>
    /\ sortArg = [items |-> 0, sort |-> DEFAULT_SORT]
    /\ sortRet = 0

\* The options of useQuery are reactive: when the key computed from the new
\* filter state differs, the observer moves to that key's query.
ObserverFollow ==
    LET k == queryKey(selectedCategory', selectedSort')
        cache == IF k = observed THEN pq ELSE ObserveQuery(pq, k, selectedCategory')
    IN /\ pq' = cache
       /\ observed' = k
       /\ productsData' = ObserverData(cache, k, productsData, lastDefined)
       /\ lastDefined' = IF cache[k].data.defined THEN k ELSE lastDefined

\* A step of the filter state with the products observer following it.
Follow(Step) == Step /\ ObserverFollow /\ lastRes' = NoResponse /\ UNCHANGED catAttempts

\* The response to the categories request arrives; a failed attempt is
\* followed by the next one while failureCount < retry.
CategoriesResponse ==
    /\ Idle
    /\ catStatus = "pending"
    /\ \E res \in CategoryResponses :
        LET r == getCategories(res) IN
        /\ lastRes' = [of |-> "categories", key |-> NoKey, status |-> res.status,
                       ok |-> r.ok]
        /\ IF r.ok
           THEN CategoriesSucceed(r.data) /\ UNCHANGED catAttempts
           ELSE /\ IF catAttempts - 1 < RETRY
                   THEN catAttempts' = catAttempts + 1 /\ UNCHANGED catStatus
                   ELSE catStatus' = "error" /\ UNCHANGED catAttempts
                /\ UNCHANGED <<query, selectedCategory, selectedSort, syncing,
                               catData, jobs, effectDeps, watchOld, nav, entries,
                               sortVars, given, byLoad, listed, chosen, hops>>
    /\ UNCHANGED <<pq, observed, productsData, lastDefined>>

\* The response to the products request of the query at key k arrives.
ProductsResponse ==
    /\ Idle
    /\ \E k \in QueryKeys :
        /\ pq[k].fetch = "fetching"
        /\ \E res \in ProductResponses(pq[k].url) :
            LET r == getProducts(res)
                cache == [pq EXCEPT ![k] = Settle(pq[k], r, k = observed)]
            IN /\ pq' = cache
               /\ productsData' = ObserverData(cache, observed, productsData, lastDefined)
               /\ lastDefined' = IF cache[observed].data.defined THEN observed
                                 ELSE lastDefined
               /\ lastRes' = [of |-> "products", key |-> k, status |-> res.status,
                              ok |-> r.ok]
    /\ UNCHANGED <<syncVars, sortVars, observed, catAttempts>>

\* The retry delay of the query at key k is over: queryFn is called again,
\* unless the observer has left the query, which then ends in error.
RetryTimer ==
    /\ Idle
    /\ \E k \in QueryKeys :
        /\ pq[k].fetch = "backoff"
        /\ pq' = [pq EXCEPT ![k] =
                     IF k = observed
                     THEN [@ EXCEPT !.fetch = "fetching", !.attempts = @ + 1,
                                    !.url = getProductsUrl(selectedCategory)]
                     ELSE [@ EXCEPT !.status = "error", !.fetch = "idle"]]
    /\ productsData' = ObserverData(pq', observed, productsData, lastDefined)
    /\ lastRes' = NoResponse
    /\ UNCHANGED <<syncVars, sortVars, observed, lastDefined, catAttempts>>

ProductsNext ==
    \/ Follow(FlushRouteWatcher)
    \/ Follow(FlushCategoryEffect)
    \/ Follow(FlushStateWatcher)
    \/ Follow(FinalizeNavigation)
    \/ Follow(ResumeWrite)
    \/ Follow(SelectCategory)
    \/ Follow(SelectSort)
    \/ CategoriesResponse
    \/ ProductsResponse
    \/ RetryTimer

ProductsSpec == ProductsInit /\ [][ProductsNext]_vars

-----------------------------------------------------------------------------
(* Properties *)

\* The URL carries exactly the filter state: category=c unless "all
\* products", sort=s unless the default.
Reflects(q, cat, sort) == q = StateQuery(q, cat, sort)

\* C1: the category c and sort s the user selected are, once settled, in the
\* URL as category=c and sort=s (no sort for title-asc); and a fresh load of a
\* URL category=c&sort=s with c in the loaded list settles with
\* selectedCategory = c, selectedSort = s and the query as loaded.
C1_RoundTrip ==
    /\ (Idle /\ chosen # None /\ chosen[1] # NULL) =>
          /\ query.category = <<chosen[1]>>
          /\ query.sort = IF chosen[2] = DEFAULT_SORT THEN Absent ELSE <<chosen[2]>>
    /\ \A c \in Range(catData), s \in SortKeys :
          (/\ Idle /\ catStatus = "success" /\ byLoad /\ chosen = None
           /\ given.category = <<c>>
           /\ given.sort = IF s = DEFAULT_SORT THEN Absent ELSE <<s>>)
          => (selectedCategory = c /\ selectedSort = s /\ query = given)

C1_Witness ==
    /\ Idle /\ catStatus = "success" /\ byLoad /\ chosen = None
    /\ given.category = <<"laptops">> /\ given.sort = <<"price-desc">>
    /\ selectedCategory = "laptops" /\ selectedSort = "price-desc"
    /\ query = given

C3_DeferredCategory ==
    (byLoad /\ asSingleString(given.category) \notin {NULL, "", ALL_PRODUCTS}) =>
        /\ catStatus = "pending" =>
              (selectedCategory = NULL /\ query.category = given.category)
        /\ (Idle /\ catStatus = "success" /\ chosen = None
            /\ asSingleString(given.category) \in Range(catData)) =>
              (/\ selectedCategory = asSingleString(given.category)
               /\ query.category = given.category)

\* C4: a route whose sort parameter is an unknown non-empty string settles
\* with selectedSort = title-asc and no sort parameter in the URL, whatever
\* the state of the category list.
C4_UnknownSortRemoved ==
    (/\ Idle /\ chosen = None
     /\ Len(given.sort) = 1
     /\ given.sort[1] \notin {""} \cup SortKeys) =>
        (selectedSort = DEFAULT_SORT /\ query.sort = Absent)

C4_Witness ==
    /\ Idle /\ chosen = None /\ catStatus = "pending"
    /\ given.sort = <<"newest">> /\ given.ref = <<"mail">>
    /\ selectedSort = DEFAULT_SORT /\ query.sort = Absent /\ query.ref = <<"mail">>

\* C5: a route whose category parameter is a non-empty string other than
\* "all products" and not in the loaded list settles, once the categories
\* request has succeeded, with selectedCategory = null and no category
\* parameter in the URL.
C5_UnknownCategoryRemoved ==
    (/\ Idle /\ catStatus = "success" /\ chosen = None
     /\ Len(given.category) = 1
     /\ given.category[1] \notin {"", ALL_PRODUCTS} \cup Range(catData))
    => (selectedCategory = NULL /\ query.category = Absent)

\* C6: in every settled state with the category list loaded the URL has a
\* category parameter exactly when selectedCategory is not null, and a sort
\* parameter exactly when selectedSort is not title-asc, each equal to the
\* state's value.
C6_DefaultsOmitted ==
    (Idle /\ catStatus = "success") => Reflects(query, selectedCategory, selectedSort)

\* C7: selectedSort is one of the four sort keys and selectedCategory is null
\* or a member of the loaded category list.
C7_StateValid ==
    /\ selectedSort \in SortKeys
    /\ selectedCategory = NULL \/ selectedCategory \in Range(categories(catData))

C7_Witness ==
    /\ selectedCategory = "laptops" /\ selectedSort = "title-desc"
    /\ given.category = <<"nosuch">> /\ chosen = None

\* C8: visibleProducts never has more than 10 elements.
C8_VisibleAtMostTen == Len(visibleProducts) <= 10

C8_Witness ==
    /\ productsData.defined /\ Len(productsData.items) > 10
    /\ Len(visibleProducts) = 10

\* Position of product x in the list s.
IndexOf(s, x) == CHOOSE i \in 1..Len(s) : s[i] = x

\* a is not after b in the order the key names; Tie: neither is before the other.
InOrder(sort, a, b) ==
    CASE sort = "price-asc" -> a.price <= b.price
      [] sort = "price-desc" -> a.price >= b.price
      [] sort = "title-asc" -> TitleRank(a.title) <= TitleRank(b.title)
      [] sort = "title-desc" -> TitleRank(a.title) >= TitleRank(b.title)

Tie(sort, a, b) ==
    IF sort \in {"price-asc", "price-desc"} THEN a.price = b.price
    ELSE TitleRank(a.title) = TitleRank(b.title)

\* C9: the result of sortProducts is a permutation of the input, ordered by
\* the key, and items that tie under the key keep their input order.
C9_SortCorrectStable ==
    sortRet # 0 =>
        LET in == arrays[sortArg.items]
            out == arrays[sortRet]
        IN /\ Len(out) = Len(in)
           /\ Range(out) = Range(in)
           /\ \A i, j \in 1..Len(out) : i < j =>
                 /\ InOrder(sortArg.sort, out[i], out[j])
                 /\ Tie(sortArg.sort, out[i], out[j]) =>
                       IndexOf(in, out[i]) < IndexOf(in, out[j])

C9_Witness ==
    /\ sortRet # 0 /\ sortArg.sort = "price-desc"
    /\ arrays[sortArg.items] = <<Product(2), Product(3), Product(4), Product(1)>>
    /\ arrays[sortRet] = <<Product(4), Product(3), Product(1), Product(2)>>

\* C10: a call of sortProducts leaves the input array as it was and returns
\* another array.
C10_InputNotMutated ==
    [][/\ arrays'[sortArg.items] = arrays[sortArg.items]
       /\ sortRet' # sortArg.items]_vars

C10_Witness ==
    /\ sortRet # 0 /\ sortRet # sortArg.items
    /\ arrays[sortArg.items] = <<Product(1), Product(2)>>
    /\ arrays[sortRet] = <<Product(2), Product(1)>>

\* C11: getCategories and getProducts hand data to their query only from a
\* response with a 2xx status; a response with any other status is a failed
\* attempt (the query waits for its retry or is in error) that stores
\* nothing; and while the products query is in error the page renders the
\* failed-to-load branch, not the grid, the empty state or the skeleton.
C11_NonOkFails ==
    [][/\ \A k \in QueryKeys :
            pq'[k].data # pq[k].data =>
                /\ lastRes'.of = "products" /\ lastRes'.key = k
                /\ lastRes'.status >= 200 /\ lastRes'.status <= 299
       /\ catData' # catData =>
            /\ lastRes'.of = "categories"
            /\ lastRes'.status >= 200 /\ lastRes'.status <= 299
       /\ (lastRes'.of = "products"
           /\ ~(lastRes'.status >= 200 /\ lastRes'.status <= 299)) =>
            /\ pq'[lastRes'.key].fetch = "backoff" \/ pq'[lastRes'.key].status = "error"
            /\ pq'[lastRes'.key].data = pq[lastRes'.key].data
       /\ (lastRes'.of = "categories"
           /\ ~(lastRes'.status >= 200 /\ lastRes'.status <= 299)) =>
            /\ catAttempts' = catAttempts + 1 \/ catStatus' = "error"
            /\ catData' = catData
       /\ pq'[observed'].status = "error" => View' = "error"
      ]_vars

\* The products request of the observed key has just been answered 404 for
\* the second time, while the placeholder of an earlier success was showing.
C11_Witness ==
    /\ lastRes.of = "products" /\ lastRes.key = observed /\ lastRes.status = 404
    /\ pq[observed].status = "error" /\ pq[observed].attempts = 2
    /\ lastDefined # NoKey /\ lastDefined # observed
    /\ View = "error"

\* C12: no feedback loop.  From every initial URL and after every user
\* selection, route change and category load, the watchers and the
\* navigations they start run out within the hop bound: a burst never
\* reaches MaxHops microtasks, it always has a next microtask until nothing
\* is left, and once nothing is left syncing is false and no navigation is
\* in flight.
C12_NoFeedbackLoop ==
    /\ hops < MaxHops
    /\ ~Idle => \/ jobs # <<>> /\ Head(jobs) \in {"R", "E", "W"}
                \/ jobs = <<>> /\ nav.phase \in {"pending", "duplicate", "finalized"}
    /\ Idle => (~syncing /\ hops = 0 /\ nav.open = 0)

\* Settled after a route change that brought an unknown sort and an unknown
\* category, both cleaned by the page.
C12_Witness ==
    /\ Idle /\ ~syncing /\ ~byLoad /\ catStatus = "success"
    /\ needsSortClean(given) /\ needsCategoryClean(given, catData)
    /\ query.sort = Absent /\ query.category = Absent

\* C13: at most one router.replace of writeStateToRoute is in flight; one is
\* started only while syncing is false and none is in flight; and in a step
\* taken while syncing is true (a watcher job, the navigation, the resume)
\* selectedCategory and selectedSort stay as they are.
C13_OneWriteInFlight ==
    [][/\ nav'.open <= 1
       /\ nav'.open > nav.open => (~syncing /\ nav.open = 0)
       /\ syncing => (selectedCategory' = selectedCategory /\ selectedSort' = selectedSort)
      ]_vars

\* A write is in flight, the route still carries the parameter it is about
\* to clean, and the watchEffect is the next job: without its guard it would
\* start a second write.
C13_Witness ==
    /\ syncing /\ nav.open = 1
    /\ jobs # <<>> /\ Head(jobs) = "E"
    /\ catStatus = "success"
    /\ needsSortClean(query) \/ needsCategoryClean(query, catData)

\* The query names a category of the list or none, and a sort key or none.
ValidQuery(q, data) ==
    /\ q.category = Absent \/ (Len(q.category) = 1 /\ q.category[1] \in Range(data))
    /\ q.sort = Absent \/ (Len(q.sort) = 1 /\ isSortKey(q.sort[1]))

\* C14 as stated: once settled after a route change, made with the list
\* loaded, to a URL whose category is in the list or absent and whose sort
\* is one of the four keys or absent, the filter state is what the URL says
\* (defaults where absent) and the URL's category and sort are as navigated
\* to.
C14_UrlLeftAsNavigated ==
    (/\ Idle /\ ~byLoad /\ listed /\ chosen = None /\ catStatus = "success"
     /\ ValidQuery(given, catData))
    => /\ selectedCategory = asSingleString(given.category)
       /\ selectedSort = (IF given.sort = Absent THEN DEFAULT_SORT ELSE given.sort[1])
       /\ query.category = given.category
       /\ query.sort = given.sort

\* C14, amended: ... the filter state is what the URL says, the URL's
\* category is as navigated to, and so is its sort, except that an explicit
\* sort=title-asc (the default) may have been removed.
C14_RouteChangeApplied ==
    (/\ Idle /\ ~byLoad /\ listed /\ chosen = None /\ catStatus = "success"
     /\ ValidQuery(given, catData))
    => /\ selectedCategory = asSingleString(given.category)
       /\ selectedSort = (IF given.sort = Absent THEN DEFAULT_SORT ELSE given.sort[1])
       /\ query.category = given.category
       /\ \/ query.sort = given.sort
          \/ given.sort = <<DEFAULT_SORT>> /\ query.sort = Absent

\* Settled after a route change to category=laptops&sort=price-desc.
C14_Witness ==
    /\ Idle /\ ~byLoad /\ listed /\ chosen = None /\ catStatus = "success"
    /\ given.category = <<"laptops">> /\ given.sort = <<"price-desc">>
    /\ selectedCategory = "laptops" /\ selectedSort = "price-desc"
    /\ query = given

\* visibleProducts is the head of productsQuery.data in the order of
\* selectedSort: min(10, n) of the n items, in order, none of them after an
\* item left out.
VisibleIsTopTen ==
    LET v == visibleProducts
        items == productsData.items
        shown == {v[i] : i \in 1..Len(v)}
        rest == {items[i] : i \in 1..Len(items)} \ shown
    IN /\ Len(v) = (IF Len(items) < 10 THEN Len(items) ELSE 10)
       /\ shown \subseteq {items[i] : i \in 1..Len(items)}
       /\ Cardinality(shown) = Len(v)
       /\ \A i \in 1..(Len(v) - 1) : InOrder(selectedSort, v[i], v[i + 1])
       /\ Len(v) > 0 => \A x \in rest : InOrder(selectedSort, v[Len(v)], x)

\* C15: in every state visibleProducts is the first min(10, n) of all n
\* products the products query holds, ordered by the current selectedSort
\* (sorted first, sliced after); and a step that changes selectedSort alone
\* changes neither the observed key nor any query of the cache, so starts no
\* products request.
C15_SortThenSlice ==
    /\ []VisibleIsTopTen
    /\ [][(selectedSort' # selectedSort /\ selectedCategory' = selectedCategory) =>
            (pq' = pq /\ observed' = observed /\ productsData' = productsData)]_vars

\* The user chose price-desc while the 11 products of "all products" were
\* held: the dearest product leads the list and the request is not repeated.
C15_Witness ==
    /\ productsData.defined /\ Len(productsData.items) > 10
    /\ chosen # None /\ chosen[2] = "price-desc" /\ selectedSort = "price-desc"
    /\ pq[observed].status = "success" /\ pq[observed].fetch = "idle"
    /\ Len(visibleProducts) = 10 /\ visibleProducts[1].price = 30

\* C16: a failed request is retried at most once.  No fetch of a products
\* query and no fetch of the categories makes more than two attempts; a
\* products query that is in error and at rest fetches again only in a step
\* that moves the observer onto its key; the categories query, once in
\* error, stays so.
C16_RetriedAtMostOnce ==
    [][/\ \A k \in QueryKeys :
            /\ pq'[k].attempts <= 2
            /\ (pq[k].status = "error" /\ pq[k].fetch = "idle" /\ pq'[k] # pq[k]) =>
                    (observed' = k /\ observed # k /\ pq'[k].attempts = 1)
       /\ catAttempts' <= 2
       /\ catStatus = "error" => (catStatus' = "error" /\ catAttempts' = catAttempts)
      ]_vars

\* Both requests have failed twice and rest in error.
C16_Witness ==
    /\ pq[observed].status = "error" /\ pq[observed].fetch = "idle"
    /\ pq[observed].attempts = 2
    /\ catStatus = "error" /\ catAttempts = 2

\* C17: writeStateToRoute touches only category and sort, and navigates by
\* replace.  A step that starts its router.replace hands over the current
\* query with every other key as it is; the step that applies the navigation
\* leaves those keys as they were; and no step adds a history entry.
C17_OtherKeysKept ==
    [][/\ nav'.open > nav.open => (nav'.target.ref = query.ref /\ nav'.replace)
       /\ (nav.phase = "pending" /\ nav'.phase = "finalized") => query'.ref = query.ref
       /\ entries' = entries
      ]_vars

\* A replace is in flight that changes category or sort of a query carrying
\* ref=mail.
C17_Witness ==
    /\ nav.phase = "pending" /\ nav.target # query
    /\ query.ref = <<"mail">> /\ nav.target.ref = <<"mail">>
    /\ entries = 0

\* C18: syncing is true exactly while a router.replace started by
\* writeStateToRoute is in flight: it is false again as soon as
\* writeStateToRoute has resumed, whether the navigation was applied, ended
\* as a duplicate, was aborted or rejected; so it is false whenever nothing
\* is left to run.
C18_SyncingReset ==
    /\ syncing <=> nav.phase # "none"
    /\ Idle => ~syncing

\* Settled with syncing false after a navigation that failed: the user's
\* choice never reached the URL.
C18_Witness ==
    /\ Idle /\ ~syncing /\ chosen # None
    /\ ~Reflects(query, chosen[1], chosen[2])

\* C19: a late response never shows the wrong category.  Whatever the order
\* of the responses, the data a query holds is the products of its own
\* key's category; when the query of the selected category holds data,
\* productsQuery.data is that data; and products of another category are
\* shown only as a placeholder, while the query of the selected category is
\* pending and fetching.
C19_LateResponse ==
    /\ \A c \in {NULL} \cup Range(SubSeq(CategoryNames, 1, MaxCategories)), s \in SortKeys :
          pq[queryKey(c, s)].data.defined =>
              pq[queryKey(c, s)].data.items = Catalogue(c)
    /\ observed = queryKey(selectedCategory, selectedSort)
    /\ pq[observed].data.defined => productsData = pq[observed].data
    /\ (productsData.defined /\ productsData.items # Catalogue(selectedCategory)) =>
          /\ pq[observed].status = "pending" /\ pq[observed].fetch # "idle"
          /\ ~pq[observed].data.defined

\* The category went from all products to beauty while the request for all
\* products was in flight; the request for beauty succeeded first, the one
\* for all products has just been answered, and beauty's products show.
C19_Witness ==
    /\ selectedCategory = "beauty"
    /\ lastRes.of = "products" /\ lastRes.ok /\ lastRes.key = queryKey(NULL, selectedSort)
    /\ pq[observed].status = "success"
    /\ pq[queryKey(NULL, selectedSort)].data.defined
    /\ productsData.items = Catalogue("beauty")
    /\ Len(visibleProducts) = 3

====
